---- MODULE Spec2Model ----
(***************************************************************************)
(* A model of the linked-list heap allocator of mtos                       *)
(* (src/allocator/linked_list.rs): the intrusive free list, the first-fit  *)
(* search, block splitting, layout normalisation and the lock around the   *)
(* allocator.                                                              *)
(*                                                                         *)
(* Addresses and sizes are machine words.  A ListNode lives in the free    *)
(* memory it describes, so a node is identified by its address: `mem` maps *)
(* the address of every node written in the heap to its fields, and the    *)
(* sentinel `head` is a field of the allocator itself.                     *)
(***************************************************************************)
EXTENDS Integers, Sequences, FiniteSets, TLC

VARIABLES
    head,       \* LinkedListAllocator.head: the sentinel ListNode
    mem,        \* heap memory holding ListNodes: address -> [size, next]
    heap,       \* the range given to init: [start, size] (NoHeap before init)
    live,       \* allocations handed out and not yet freed: [ptr, size, align]
    hist,       \* the most recent operations and their results
    nops,       \* operations performed so far
    panicked,   \* a fatal stop (assert!/expect) has happened
    lock,       \* Locked<..>: the context holding the spin lock, or NoHolder
    pc,         \* per execution context: its position in alloc/dealloc
    loc,        \* per execution context: the locals of the running call
    shadow,     \* the free list and live set produced by running the calls one at a time, in lock order
    fn_in,      \* inputs of a function applied on its own
    fn_out      \* its result

vars == <<head, mem, heap, live, hist, nops, panicked, lock, pc, loc, shadow, fn_in, fn_out>>

----------------------------------------------------------------------------
(* Machine constants (x86_64 layout of ListNode scaled to the word width   *)
(* of the model).                                                          *)

\* None of Option<&'static mut ListNode>, and ptr::null_mut()
NULL == 0

\* the address standing for &mut self.head, which is not in the heap
HEAD == -1

\* mem::size_of::<ListNode>(): a usize and a pointer
NodeSize == 16

\* mem::align_of::<ListNode>()
NodeAlign == 8

\* width of usize in the model
WordBits == 16

UsizeMax == 2^WordBits - 1

NoHeap == [start |-> 0, size |-> 0]

NoHolder == "none"

----------------------------------------------------------------------------
(* Bounds of the model                                                     *)

\* allocations outstanding at any one time
MaxLive == 3

\* operations remembered in hist
HistLen == 3

\* operations in one run, init included
MaxOps == 6

\* init(heap_start, heap_size) arguments; the last two break the contract
\* of add_free_region (a start that is not record aligned, a size below
\* one record)
HeapConfigs ==
    { [start |-> 4096, size |-> 64],
      [start |-> 4096, size |-> 4096],
      [start |-> 4104, size |-> 96],
      [start |-> 4100, size |-> 64],
      [start |-> 4096, size |-> 8] }

\* Layouts requested: [size, align]
Layout(size, align) == [size |-> size, align |-> align]

Requests ==
    { Layout(8, 1), Layout(16, 8), Layout(24, 8), Layout(64, 8),
      Layout(100, 8), Layout(16, 32) }

----------------------------------------------------------------------------
(* Helpers of the crate and of core                                        *)

Max(a, b) == IF a >= b THEN a ELSE b

\* super::align_up: addr rounded up to the next multiple of align
align_up(addr, align) == ((addr + align - 1) \div align) * align

\* an addition that wraps around instead of reporting the overflow
wrapping_add(a, b) == (a + b) % (UsizeMax + 1)

\* usize::checked_add: None (here -1) on overflow
checked_add(a, b) == IF a + b > UsizeMax THEN -1 ELSE a + b

\* ListNode::new
ListNode_new(size) == [size |-> size, next |-> NULL]

\* ListNode::start_addr: the node's own address
start_addr(addr) == addr

\* ListNode::end_addr
end_addr(addr, node) == start_addr(addr) + node.size

\* the node behind a &mut ListNode
node_at(h, m, p) == IF p = HEAD THEN h ELSE m[p]

\* assignment to p.next
set_next(h, m, p, n) ==
    IF p = HEAD
    THEN [head |-> [h EXCEPT !.next = n], mem |-> m]
    ELSE [head |-> h, mem |-> [m EXCEPT ![p].next = n]]

\* m with a node written at addr
write_node(m, addr, node) ==
    [a \in (DOMAIN m) \cup {addr} |-> IF a = addr THEN node ELSE m[a]]

\* m without the node at addr (the memory now belongs to the caller)
drop_node(m, addr) == [a \in (DOMAIN m) \ {addr} |-> m[a]]

----------------------------------------------------------------------------
(* LinkedListAllocator                                                     *)

\* LinkedListAllocator::new: only the sentinel
new == ListNode_new(0)

\* add_free_region that merges the new region into a free region ending
\* where it starts
add_free_region_coalesce(h, m, addr, size) ==
    IF align_up(addr, NodeAlign) # addr \/ size < NodeSize
    THEN [panic |-> TRUE, head |-> h, mem |-> m]
    ELSE IF \E p \in DOMAIN m : p + m[p].size = addr
    THEN LET p == CHOOSE q \in DOMAIN m : q + m[q].size = addr
         IN  [panic |-> FALSE, head |-> h,
              mem |-> [m EXCEPT ![p].size = @ + size]]
    ELSE LET node == [ListNode_new(size) EXCEPT !.next = h.next]
         IN  [panic |-> FALSE,
              head  |-> [h EXCEPT !.next = addr],
              mem   |-> write_node(m, addr, node)]

\* add_free_region that links the new region behind the last one
add_free_region_append(h, m, addr, size) ==
    IF align_up(addr, NodeAlign) # addr \/ size < NodeSize
    THEN [panic |-> TRUE, head |-> h, mem |-> m]
    ELSE IF h.next = NULL
    THEN [panic |-> FALSE,
          head  |-> [h EXCEPT !.next = addr],
          mem   |-> write_node(m, addr, ListNode_new(size))]
    ELSE LET last == CHOOSE p \in DOMAIN m : m[p].next = NULL
         IN  [panic |-> FALSE,
              head  |-> h,
              mem   |-> write_node([m EXCEPT ![last].next = addr], addr,
                                   ListNode_new(size))]

\* add_free_region without its assertions
add_free_region_unchecked(h, m, addr, size) ==
    LET node == [ListNode_new(size) EXCEPT !.next = h.next]
    IN  [panic |-> FALSE,
         head  |-> [h EXCEPT !.next = addr],
         mem   |-> write_node(m, addr, node)]

\* add_free_region: the two assertions, then the node is written at addr
\* and spliced in right after the sentinel
add_free_region(h, m, addr, size) ==
    IF align_up(addr, NodeAlign) # addr \/ size < NodeSize
    THEN [panic |-> TRUE, head |-> h, mem |-> m]
    ELSE LET node == [ListNode_new(size) EXCEPT !.next = h.next]
         IN  [panic |-> FALSE,
              head  |-> [h EXCEPT !.next = addr],
              mem   |-> write_node(m, addr, node)]

\* alloc_from_region that takes the region's start as it is, unaligned
alloc_from_region_unaligned(addr, region, size, align) ==
    LET alloc_start == start_addr(addr)
        alloc_end   == checked_add(alloc_start, size)
        excess_size == end_addr(addr, region) - alloc_end
    IN  IF alloc_end = -1 \/ alloc_end > end_addr(addr, region)
        THEN [ok |-> FALSE, alloc_start |-> 0]
        ELSE IF excess_size > 0 /\ excess_size < NodeSize
        THEN [ok |-> FALSE, alloc_start |-> 0]
        ELSE [ok |-> TRUE, alloc_start |-> alloc_start]

\* alloc_from_region that also turns away a region it fills exactly
alloc_from_region_no_exact(addr, region, size, align) ==
    LET alloc_start == align_up(start_addr(addr), align)
        alloc_end   == checked_add(alloc_start, size)
        excess_size == end_addr(addr, region) - alloc_end
    IN  IF alloc_end = -1 \/ alloc_end >= end_addr(addr, region)
        THEN [ok |-> FALSE, alloc_start |-> 0]
        ELSE IF excess_size > 0 /\ excess_size < NodeSize
        THEN [ok |-> FALSE, alloc_start |-> 0]
        ELSE [ok |-> TRUE, alloc_start |-> alloc_start]

\* alloc_from_region without the test of the leftover
alloc_from_region_any_excess(addr, region, size, align) ==
    LET alloc_start == align_up(start_addr(addr), align)
        alloc_end   == checked_add(alloc_start, size)
    IN  IF alloc_end = -1 \/ alloc_end > end_addr(addr, region)
        THEN [ok |-> FALSE, alloc_start |-> 0]
        ELSE [ok |-> TRUE, alloc_start |-> alloc_start]

\* alloc_from_region: the fits test; Ok(alloc_start) or Err(())
alloc_from_region(addr, region, size, align) ==
    LET alloc_start == align_up(start_addr(addr), align)
        alloc_end   == checked_add(alloc_start, size)
        excess_size == end_addr(addr, region) - alloc_end
    IN  IF alloc_end = -1
        THEN [ok |-> FALSE, alloc_start |-> 0]
        ELSE IF alloc_end > end_addr(addr, region)
        THEN [ok |-> FALSE, alloc_start |-> 0]
        ELSE IF excess_size > 0 /\ excess_size < NodeSize
        THEN [ok |-> FALSE, alloc_start |-> 0]
        ELSE [ok |-> TRUE, alloc_start |-> alloc_start]

\* the loop of find_region, standing at `current`
RECURSIVE find_from(_, _, _, _, _)
find_from(h, m, current, size, align) ==
    LET region == node_at(h, m, current).next
    IN  IF region = NULL
        THEN [found |-> FALSE, region |-> NULL, alloc_start |-> 0,
              head |-> h, mem |-> m]
        ELSE LET fit == alloc_from_region(region, m[region], size, align)
             IN  IF fit.ok
                 THEN LET next  == m[region].next
                          taken == [m EXCEPT ![region].next = NULL]
                          upd   == set_next(h, taken, current, next)
                      IN  [found |-> TRUE, region |-> region,
                           alloc_start |-> fit.alloc_start,
                           head |-> upd.head, mem |-> upd.mem]
                 ELSE find_from(h, m, region, size, align)

\* find_region that tries the first region only and does not iterate
find_region_first_only(h, m, size, align) ==
    LET region == h.next
    IN  IF region # NULL /\ alloc_from_region(region, m[region], size, align).ok
        THEN find_from(h, m, HEAD, size, align)
        ELSE [found |-> FALSE, region |-> NULL, alloc_start |-> 0,
              head |-> h, mem |-> m]

\* the addresses of the nodes linked from p, at most n of them
RECURSIVE linked_from(_, _, _)
linked_from(m, p, n) ==
    IF p = NULL \/ n = 0 THEN << >>
    ELSE <<p>> \o linked_from(m, m[p].next, n - 1)

\* find_region that takes the last region that fits instead of the first
find_region_last_fit(h, m, size, align) ==
    LET chain == linked_from(m, h.next, Cardinality(DOMAIN m))
        fits  == { i \in 1..Len(chain) :
                     alloc_from_region(chain[i], m[chain[i]], size, align).ok }
    IN  IF fits = {}
        THEN [found |-> FALSE, region |-> NULL, alloc_start |-> 0,
              head |-> h, mem |-> m]
        ELSE LET i      == CHOOSE k \in fits : \A j \in fits : j <= k
                 region == chain[i]
                 prev   == IF i = 1 THEN HEAD ELSE chain[i - 1]
                 taken  == [m EXCEPT ![region].next = NULL]
                 upd    == set_next(h, taken, prev, m[region].next)
             IN  [found |-> TRUE, region |-> region,
                  alloc_start |->
                      alloc_from_region(region, m[region], size, align).alloc_start,
                  head |-> upd.head, mem |-> upd.mem]

\* find_region that leaves the region it found linked in the list
find_region_no_unlink(h, m, size, align) ==
    LET f == find_from(h, m, HEAD, size, align)
    IN  [f EXCEPT !.head = h, !.mem = m]

\* find_region whose failed search unlinks the first region it looked at
find_region_drop_on_miss(h, m, size, align) ==
    LET f == find_from(h, m, HEAD, size, align)
    IN  IF f.found \/ h.next = NULL THEN f
        ELSE LET upd == set_next(h, m, HEAD, m[h.next].next)
             IN  [f EXCEPT !.head = upd.head, !.mem = upd.mem]

\* find_region: first fit from the sentinel; the region found is unlinked
find_region(h, m, size, align) == find_from(h, m, HEAD, size, align)

\* size_align that does not raise the size to that of a ListNode
size_align_no_min(size, align) ==
    LET al == Max(align, NodeAlign)
    IN  [size |-> align_up(size, al), align |-> al]

\* size_align that does not pad the size to the alignment
size_align_no_pad(size, align) ==
    [size |-> Max(size, NodeSize), align |-> Max(align, NodeAlign)]

\* size_align: Layout::align_to(align_of ListNode), pad_to_align, then at
\* least size_of ListNode
size_align(size, align) ==
    LET al     == Max(align, NodeAlign)
        padded == align_up(size, al)
    IN  [size |-> Max(padded, NodeSize), align |-> al]

----------------------------------------------------------------------------
(* GlobalAlloc for Locked<LinkedListAllocator>                             *)

\* alloc_split that registers the leftover at alloc_start, not alloc_end
alloc_split_at_start(h, m, region, alloc_start, size) ==
    LET alloc_end   == checked_add(alloc_start, size)
        excess_size == end_addr(region, m[region]) - alloc_end
        rest        == drop_node(m, region)
    IN  IF alloc_end = -1
        THEN [panic |-> TRUE, ptr |-> NULL, head |-> h, mem |-> m]
        ELSE IF excess_size > 0
        THEN LET r == add_free_region(h, rest, alloc_start, excess_size)
             IN  [panic |-> r.panic, ptr |-> alloc_start,
                  head |-> r.head, mem |-> r.mem]
        ELSE [panic |-> FALSE, ptr |-> alloc_start, head |-> h, mem |-> rest]

\* alloc_split that never registers the leftover
alloc_split_no_leftover(h, m, region, alloc_start, size) ==
    LET alloc_end == checked_add(alloc_start, size)
    IN  IF alloc_end = -1
        THEN [panic |-> TRUE, ptr |-> NULL, head |-> h, mem |-> m]
        ELSE [panic |-> FALSE, ptr |-> alloc_start, head |-> h,
              mem |-> drop_node(m, region)]

\* alloc, after find_region returned Some((region, alloc_start)): the
\* leftover behind the allocation goes back on the list
alloc_split(h, m, region, alloc_start, size) ==
    LET alloc_end   == checked_add(alloc_start, size)
        excess_size == end_addr(region, m[region]) - alloc_end
        rest        == drop_node(m, region)
    IN  IF alloc_end = -1
        THEN [panic |-> TRUE, ptr |-> NULL, head |-> h, mem |-> m]
        ELSE IF excess_size > 0
        THEN LET r == add_free_region(h, rest, alloc_end, excess_size)
             IN  [panic |-> r.panic, ptr |-> alloc_start,
                  head |-> r.head, mem |-> r.mem]
        ELSE [panic |-> FALSE, ptr |-> alloc_start, head |-> h, mem |-> rest]

\* the free-list part of alloc for a normalised (size, align)
alloc_locked(h, m, size, align) ==
    LET f == find_region(h, m, size, align)
    IN  IF f.found
        THEN alloc_split(f.head, f.mem, f.region, f.alloc_start, size)
        ELSE [panic |-> FALSE, ptr |-> NULL, head |-> f.head, mem |-> f.mem]

\* dealloc that registers the size of the layout as it was given
dealloc_locked_raw(h, m, ptr, size, align) ==
    add_free_region(h, m, ptr, Max(size, NodeSize))

\* dealloc that forgets the block instead of registering it
dealloc_locked_leak(h, m, ptr, size, align) ==
    [panic |-> FALSE, head |-> h, mem |-> m]

\* the free-list part of dealloc
dealloc_locked(h, m, ptr, size, align) ==
    add_free_region(h, m, ptr, size_align(size, align).size)

----------------------------------------------------------------------------
(* State after construction                                                *)

\* execution contexts: the kernel's normal path on two cores and an
\* interrupt handler that preempts the first core
Ctx == {"main0", "irq0", "main1"}

EmptyMem == [a \in {} |-> ListNode_new(0)]

NoLoc == [op |-> "none", size |-> 0, align |-> 0, ptr |-> NULL,
          region |-> NULL, alloc_start |-> 0, ret |-> NULL]

NoArgs == [addr |-> 0, rsize |-> 0, size |-> 0, align |-> 0]

NoResult == [done |-> FALSE]

\* hist with one more operation, the oldest forgotten
Push(h, e) == IF Len(h) < HistLen THEN Append(h, e) ELSE Append(Tail(h), e)

Event(op, size, align, ptr) ==
    [op |-> op, size |-> size, align |-> align, ptr |-> ptr]

\* static ALLOCATOR = Locked::new(LinkedListAllocator::new())
InitAlloc ==
    /\ head = new
    /\ mem = EmptyMem
    /\ heap = NoHeap
    /\ live = {}
    /\ hist = << >>
    /\ nops = 0
    /\ panicked = FALSE
    /\ lock = NoHolder
    /\ pc = [c \in Ctx |-> "idle"]
    /\ loc = [c \in Ctx |-> NoLoc]
    /\ shadow = [head |-> new, mem |-> EmptyMem, ret |-> [c \in Ctx |-> NULL]]

Init ==
    /\ InitAlloc
    /\ fn_in = NoArgs
    /\ fn_out = NoResult

\* init has been called and no fatal stop has happened
Ready == heap # NoHeap /\ ~panicked

----------------------------------------------------------------------------
(* One caller: every call runs from entry to return                        *)

\* init(heap_start, heap_size), called once before any allocation
init(heap_start, heap_size) ==
    /\ heap = NoHeap
    /\ ~panicked
    /\ nops < MaxOps
    /\ nops' = nops + 1
    /\ LET r == add_free_region(head, mem, heap_start, heap_size)
       IN  /\ head' = r.head
           /\ mem' = r.mem
           /\ panicked' = r.panic
           /\ shadow' = [shadow EXCEPT !.head = r.head, !.mem = r.mem]
    /\ heap' = [start |-> heap_start, size |-> heap_size]
    /\ hist' = Push(hist, Event("init", heap_size, 0, heap_start))
    /\ UNCHANGED <<live, lock, pc, loc, fn_in, fn_out>>

\* alloc(layout): lock, find_region, split, unlock
alloc(size, align) ==
    /\ heap # NoHeap
    /\ ~panicked
    /\ Cardinality(live) < MaxLive
    /\ nops < MaxOps
    /\ nops' = nops + 1
    /\ LET sa == size_align(size, align)
           r  == alloc_locked(head, mem, sa.size, sa.align)
       IN  /\ head' = r.head
           /\ mem' = r.mem
           /\ panicked' = r.panic
           /\ live' = IF r.ptr # NULL /\ ~r.panic
                      THEN live \cup {[ptr |-> r.ptr, size |-> size, align |-> align]}
                      ELSE live
           /\ hist' = Push(hist, Event("alloc", size, align, r.ptr))
           /\ shadow' = [shadow EXCEPT !.head = r.head, !.mem = r.mem]
    /\ UNCHANGED <<heap, lock, pc, loc, fn_in, fn_out>>

\* dealloc(ptr, layout) of an allocation that is live, with its own layout
dealloc(l) ==
    /\ heap # NoHeap
    /\ ~panicked
    /\ l \in live
    /\ nops < MaxOps
    /\ nops' = nops + 1
    /\ LET r == dealloc_locked(head, mem, l.ptr, l.size, l.align)
       IN  /\ head' = r.head
           /\ mem' = r.mem
           /\ panicked' = r.panic
           /\ shadow' = [shadow EXCEPT !.head = r.head, !.mem = r.mem]
    /\ live' = live \ {l}
    /\ hist' = Push(hist, Event("dealloc", l.size, l.align, l.ptr))
    /\ UNCHANGED <<heap, lock, pc, loc, fn_in, fn_out>>

Next ==
    \/ \E c \in HeapConfigs : init(c.start, c.size)
    \/ \E q \in Requests : alloc(q.size, q.align)
    \/ \E l \in live : dealloc(l)

Spec == Init /\ [][Next]_vars

----------------------------------------------------------------------------
(* Several execution contexts: a call is a sequence of steps, and the      *)
(* steps of different contexts interleave                                  *)

\* the core a context runs on
CoreOf == [c \in Ctx |-> IF c = "main1" THEN 1 ELSE 0]

\* interrupt handlers
IsHandler(c) == c = "irq0"

\* a handler runs to completion before the code it interrupted resumes
Runnable(c) ==
    \/ IsHandler(c)
    \/ \A h \in Ctx : (IsHandler(h) /\ CoreOf[h] = CoreOf[c]) => pc[h] = "idle"

\* Locked: the spin lock is free
LockFree == lock = NoHolder

\* the layouts requested and the heap when contexts run side by side
ConcRequests == { Layout(16, 8), Layout(24, 8) }

ConcHeap == [start |-> 4096, size |-> 64]

\* alloc is entered: size_align(layout), then self.lock()
call_alloc(c, size, align) ==
    /\ Ready
    /\ pc[c] = "idle"
    /\ Runnable(c)
    /\ nops < MaxOps
    /\ nops' = nops + 1
    /\ LET sa == size_align(size, align)
       IN  loc' = [loc EXCEPT ![c] =
                     [NoLoc EXCEPT !.op = "alloc", !.size = sa.size,
                                   !.align = sa.align]]
    /\ pc' = [pc EXCEPT ![c] = "lock"]
    /\ live' = live
    /\ UNCHANGED <<head, mem, heap, hist, panicked, lock, shadow, fn_in, fn_out>>

\* dealloc is entered with a live allocation, which the caller gives up:
\* size_align(layout), then self.lock()
call_dealloc(c, l) ==
    /\ Ready
    /\ pc[c] = "idle"
    /\ Runnable(c)
    /\ l \in live
    /\ nops < MaxOps
    /\ nops' = nops + 1
    /\ loc' = [loc EXCEPT ![c] =
                 [NoLoc EXCEPT !.op = "dealloc", !.ptr = l.ptr,
                               !.size = size_align(l.size, l.align).size,
                               !.align = l.align]]
    /\ pc' = [pc EXCEPT ![c] = "lock"]
    /\ live' = live \ {l}
    /\ UNCHANGED <<head, mem, heap, hist, panicked, lock, shadow, fn_in, fn_out>>

\* the call of c run in one piece on the free list of shadow
serial(sh, c) ==
    IF loc[c].op = "alloc"
    THEN LET r == alloc_locked(sh.head, sh.mem, loc[c].size, loc[c].align)
         IN  [head |-> r.head, mem |-> r.mem,
              ret |-> [sh.ret EXCEPT ![c] = r.ptr]]
    ELSE LET r == add_free_region(sh.head, sh.mem, loc[c].ptr, loc[c].size)
         IN  [head |-> r.head, mem |-> r.mem, ret |-> sh.ret]

\* a context that stops waiting for the lock and returns null
spin_gives_up(c) ==
    /\ ~panicked
    /\ pc[c] = "lock"
    /\ Runnable(c)
    /\ ~LockFree
    /\ pc' = [pc EXCEPT ![c] = "idle"]
    /\ UNCHANGED <<head, mem, heap, live, hist, nops, panicked, lock, loc,
                   shadow, fn_in, fn_out>>

\* self.lock() while another context holds the lock: the spin loop turns
spin(c) ==
    /\ ~panicked
    /\ pc[c] = "lock"
    /\ Runnable(c)
    /\ ~LockFree
    /\ UNCHANGED vars

\* a lock() that does not wait for the holder
acquire_no_wait(c) ==
    /\ ~panicked
    /\ pc[c] = "lock"
    /\ Runnable(c)
    /\ lock' = c
    /\ pc' = [pc EXCEPT ![c] = IF loc[c].op = "alloc" THEN "find" ELSE "add"]
    /\ shadow' = serial(shadow, c)
    /\ UNCHANGED <<head, mem, heap, live, hist, nops, panicked, loc, fn_in, fn_out>>

\* self.lock() returns the guard
acquire(c) ==
    /\ ~panicked
    /\ pc[c] = "lock"
    /\ Runnable(c)
    /\ LockFree
    /\ lock' = c
    /\ pc' = [pc EXCEPT ![c] = IF loc[c].op = "alloc" THEN "find" ELSE "add"]
    /\ shadow' = serial(shadow, c)
    /\ UNCHANGED <<head, mem, heap, live, hist, nops, panicked, loc, fn_in, fn_out>>

\* alloc: allocator.find_region(size, align); on None the guard is dropped
\* and null returned
alloc_find(c) ==
    /\ ~panicked
    /\ pc[c] = "find"
    /\ Runnable(c)
    /\ LET f == find_region(head, mem, loc[c].size, loc[c].align)
       IN  /\ head' = f.head
           /\ mem' = f.mem
           /\ IF f.found
              THEN /\ loc' = [loc EXCEPT ![c].region = f.region,
                                         ![c].alloc_start = f.alloc_start]
                   /\ pc' = [pc EXCEPT ![c] = "split"]
                   /\ lock' = lock
              ELSE /\ loc' = [loc EXCEPT ![c].ret = NULL]
                   /\ pc' = [pc EXCEPT ![c] = "idle"]
                   /\ lock' = NoHolder
    /\ UNCHANGED <<heap, live, hist, nops, panicked, shadow, fn_in, fn_out>>

\* alloc: the leftover is registered, the guard dropped and alloc_start
\* returned
alloc_finish(c) ==
    /\ ~panicked
    /\ pc[c] = "split"
    /\ Runnable(c)
    /\ loc[c].region \in DOMAIN mem    \* the region taken is still at its address
    /\ LET r == alloc_split(head, mem, loc[c].region, loc[c].alloc_start,
                            loc[c].size)
       IN  /\ head' = r.head
           /\ mem' = r.mem
           /\ panicked' = r.panic
           /\ loc' = [loc EXCEPT ![c].ret = r.ptr]
           /\ live' = IF r.panic THEN live
                      ELSE live \cup {[ptr |-> r.ptr, size |-> loc[c].size,
                                       align |-> loc[c].align]}
    /\ pc' = [pc EXCEPT ![c] = "idle"]
    /\ lock' = NoHolder
    /\ UNCHANGED <<heap, hist, nops, shadow, fn_in, fn_out>>

\* dealloc: add_free_region(ptr, size) and the guard is dropped
dealloc_add(c) ==
    /\ ~panicked
    /\ pc[c] = "add"
    /\ Runnable(c)
    /\ LET r == add_free_region(head, mem, loc[c].ptr, loc[c].size)
       IN  /\ head' = r.head
           /\ mem' = r.mem
           /\ panicked' = r.panic
    /\ pc' = [pc EXCEPT ![c] = "idle"]
    /\ lock' = NoHolder
    /\ UNCHANGED <<heap, live, hist, nops, loc, shadow, fn_in, fn_out>>

NextConc ==
    \/ init(ConcHeap.start, ConcHeap.size)
    \/ \E c \in Ctx, q \in ConcRequests : call_alloc(c, q.size, q.align)
    \/ \E c \in Ctx, l \in live : call_dealloc(c, l)
    \/ \E c \in Ctx : spin(c)
    \/ \E c \in Ctx : acquire(c)
    \/ \E c \in Ctx : alloc_find(c)
    \/ \E c \in Ctx : alloc_finish(c)
    \/ \E c \in Ctx : dealloc_add(c)

SpecConc == Init /\ [][NextConc]_vars

----------------------------------------------------------------------------
(* The fits test, the normalisation and one allocation applied on their    *)
(* own to a single free region [addr, addr + rsize) and a (size, align)    *)

\* bounds of the inputs
MaxRegion == 48
MaxRequest == 50

\* region starts: page aligned, record aligned only, and in the last page
\* of the address space
FnAddrs == {4096, 4104, UsizeMax - 255}

\* request sizes, one of them past the end of the address space from
\* every region start, and one (within isize::MAX, as a Layout is) past
\* it from the region start in the last page only
FnSizes == (1..MaxRequest) \cup {UsizeMax - 4095, 2^(WordBits - 1) - 4096}

FnAligns == {1, 4, 8, 16, 32}

FnInputs ==
    { [addr |-> a, rsize |-> r, size |-> s, align |-> al] :
        a \in FnAddrs, r \in NodeSize..MaxRegion, s \in FnSizes, al \in FnAligns }

InitFn ==
    /\ InitAlloc
    /\ fn_in \in FnInputs
    /\ fn_out = NoResult

\* the list holding the single region of fn_in
OneRegion == add_free_region(new, EmptyMem, fn_in.addr, fn_in.rsize)

\* alloc(Layout(size, align)) on that list
OneAlloc ==
    LET sa == size_align(fn_in.size, fn_in.align)
    IN  alloc_locked(OneRegion.head, OneRegion.mem, sa.size, sa.align)

\* alloc_from_region(region, size, align) on that region, size_align of
\* Layout(size, align), alloc(Layout(size, align)) on that list and, when
\* it returned an address, dealloc of that address with the same layout
Apply ==
    /\ ~fn_out.done
    /\ fn_out' =
          [done  |-> TRUE,
           fit   |-> alloc_from_region(fn_in.addr, ListNode_new(fn_in.rsize),
                                       fn_in.size, fn_in.align),
           norm  |-> size_align(fn_in.size, fn_in.align),
           alloc |-> OneAlloc,
           free  |-> IF OneAlloc.ptr # NULL /\ ~OneAlloc.panic
                     THEN dealloc_locked(OneAlloc.head, OneAlloc.mem,
                                         OneAlloc.ptr, fn_in.size, fn_in.align)
                     ELSE [panic |-> FALSE, head |-> OneAlloc.head,
                           mem |-> OneAlloc.mem]]
    /\ UNCHANGED <<head, mem, heap, live, hist, nops, panicked, lock, pc,
                   loc, shadow, fn_in>>

NextFn == Apply

SpecFn == InitFn /\ [][NextFn]_vars

----------------------------------------------------------------------------
(* Vocabulary of the properties                                            *)

\* the addresses of the nodes reached from p by following next, at most n
RECURSIVE ChainFrom(_, _, _)
ChainFrom(m, p, n) ==
    IF p = NULL \/ n = 0 \/ p \notin DOMAIN m
    THEN << >>
    ELSE <<p>> \o ChainFrom(m, m[p].next, n - 1)

\* the free list of (h, m), in list order
ChainOf(h, m) == ChainFrom(m, h.next, Cardinality(DOMAIN m))

Chain == ChainOf(head, mem)

\* the regions in the free list: [start, size]
FreeRegions ==
    { [start |-> Chain[i], size |-> mem[Chain[i]].size] : i \in 1..Len(Chain) }

\* the span an allocation occupies
NormSize(l) == size_align(l.size, l.align).size

LiveSpans == { [start |-> l.ptr, size |-> NormSize(l)] : l \in live }

Disjoint(a, b) == a.start + a.size <= b.start \/ b.start + b.size <= a.start

RECURSIVE SumSizes(_)
SumSizes(S) ==
    IF S = {} THEN 0
    ELSE LET x == CHOOSE y \in S : TRUE IN x.size + SumSizes(S \ {x})

Last(h) == h[Len(h)]

\* this step is a call of alloc
AllocStep == nops' = nops + 1 /\ Last(hist').op = "alloc"

----------------------------------------------------------------------------
(* C1  No overlap: the spans of the live allocations are pairwise disjoint *)
(* and none of them overlaps a region of the free list.                    *)
C1_NoOverlap ==
    Ready =>
        /\ \A a \in live, b \in live :
              a # b => Disjoint([start |-> a.ptr, size |-> NormSize(a)],
                                [start |-> b.ptr, size |-> NormSize(b)])
        /\ \A a \in LiveSpans, r \in FreeRegions : Disjoint(a, r)

\* two allocations live next to two free regions, one of them freed
C1_Witness ==
    /\ Ready
    /\ Cardinality(live) >= 2
    /\ Len(Chain) >= 2
    /\ hist # << >> /\ Last(hist).op = "dealloc"

(* C2  Capacity conservation: free sizes plus live normalised sizes add up *)
(* to heap_size in every state after init.                                 *)
C2_CapacityConserved ==
    Ready => SumSizes(FreeRegions) + SumSizes(LiveSpans) = heap.size

(* C3  Alignment: every address handed out is a multiple of the requested  *)
(* align and of the record alignment, and its span lies inside the heap.   *)
C3_Aligned ==
    Ready =>
        \A l \in live :
            /\ l.ptr % l.align = 0
            /\ l.ptr % NodeAlign = 0
            /\ heap.start <= l.ptr
            /\ l.ptr + NormSize(l) <= heap.start + heap.size

\* an allocation aligned above the record alignment, taken from a region
\* whose start was not so aligned
C3_Witness ==
    /\ Ready
    /\ hist # << >> /\ Last(hist).op = "alloc" /\ Last(hist).ptr # NULL
    /\ Last(hist).align = 32
    /\ \E l \in live : /\ l.ptr = Last(hist).ptr
                       /\ \E k \in live : k.ptr + NormSize(k) < l.ptr
                                          /\ (k.ptr + NormSize(k)) % 32 # 0

C5_RoundTrip ==
    [][AllocStep =>
          LET e == Last(hist')
          IN  /\ ( /\ hist # << >>
                   /\ Last(hist).op = "dealloc"
                   /\ Last(hist).size = e.size
                   /\ Last(hist).align = e.align ) => e.ptr # NULL
              /\ ( /\ heap = [start |-> 4096, size |-> 4096]
                   /\ nops = 1
                   /\ e.size = 64 /\ e.align = 8 ) =>
                       /\ e.ptr # NULL
                       /\ e.ptr % 8 = 0
                       /\ 4096 <= e.ptr /\ e.ptr < 4096 + 4096]_vars

\* in the heap of init(0x1000, 4096): allocate(64, 8), its deallocate and
\* allocate(64, 8) again, which succeeded
C5_Witness ==
    /\ heap = [start |-> 4096, size |-> 4096]
    /\ hist = << Event("alloc", 64, 8, 4096), Event("dealloc", 64, 8, 4096),
                 Event("alloc", 64, 8, 4096) >>

(* C6  Fragmentation: after two adjacent blocks were allocated and both    *)
(* deallocated, an alloc for a span larger than either block and smaller   *)
(* than their sum is never served from the two blocks.                     *)

\* the last two operations freed two adjacent blocks
TwoAdjacentFreed ==
    /\ Len(hist) >= 2
    /\ LET d1 == hist[Len(hist) - 1]
           d2 == Last(hist)
       IN  /\ d1.op = "dealloc" /\ d2.op = "dealloc"
           /\ \/ d1.ptr + NormSize(d1) = d2.ptr
              \/ d2.ptr + NormSize(d2) = d1.ptr

\* the request e is larger than either block and smaller than their sum
Between(e) ==
    LET n  == NormSize(e)
        n1 == NormSize(hist[Len(hist) - 1])
        n2 == NormSize(Last(hist))
    IN  n > n1 /\ n > n2 /\ n < n1 + n2

\* the claim as stated: such an alloc must fail
C6_MustFail ==
    [][(AllocStep /\ TwoAdjacentFreed /\ Between(Last(hist'))) =>
          Last(hist').ptr = NULL]_vars

\* as amended: the alloc is not served from the two freed blocks; it fails
\* exactly when no other region of the free list fits
C6_NotCoalesced ==
    [][(AllocStep /\ TwoAdjacentFreed /\ Between(Last(hist'))) =>
          LET e  == Last(hist')
              sa == size_align(e.size, e.align)
              d1 == hist[Len(hist) - 1]
              d2 == Last(hist)
              lo == IF d1.ptr < d2.ptr THEN d1.ptr ELSE d2.ptr
              hi == lo + NormSize(d1) + NormSize(d2)
          IN  /\ e.ptr # NULL => (e.ptr + sa.size <= lo \/ e.ptr >= hi)
              /\ e.ptr = NULL <=>
                    \A i \in 1..Len(Chain) :
                        Chain[i] \notin {d1.ptr, d2.ptr} =>
                            ~alloc_from_region(Chain[i], mem[Chain[i]],
                                               sa.size, sa.align).ok]_vars

\* two adjacent 64-byte blocks were freed and allocate(100, 8), which
\* their sum could hold, was not served from them
C6_Witness ==
    /\ Len(hist) = 3
    /\ hist[1].op = "dealloc" /\ hist[2].op = "dealloc"
    /\ NormSize(hist[1]) = 64 /\ NormSize(hist[2]) = 64
    /\ \/ hist[1].ptr + 64 = hist[2].ptr
       \/ hist[2].ptr + 64 = hist[1].ptr
    /\ hist[3].op = "alloc" /\ NormSize(hist[3]) = 104
    /\ hist[3].ptr # hist[1].ptr /\ hist[3].ptr # hist[2].ptr

(* C7  Fit rejection boundary: a region of exactly N bytes whose start is  *)
(* a multiple of align passes the fits test for N bytes, with the          *)
(* allocation starting at the region's start and nothing left over, and    *)
(* fails it for N + 1 bytes.                                               *)
C7_FitBoundary ==
    (fn_out.done /\ fn_in.addr % fn_in.align = 0) =>
        /\ fn_in.size = fn_in.rsize =>
              /\ fn_out.fit.ok
              /\ fn_out.fit.alloc_start = fn_in.addr
              /\ fn_in.addr + fn_in.rsize - (fn_out.fit.alloc_start + fn_in.size) = 0
        /\ fn_in.size = fn_in.rsize + 1 => ~fn_out.fit.ok

\* the exact fit, accepted
C7_Witness ==
    /\ fn_out.done
    /\ fn_in.addr % fn_in.align = 0
    /\ fn_in.size = fn_in.rsize
    /\ fn_out.fit.ok

(* C8  Minimum leftover: a region of size + k bytes with an aligned start  *)
(* and 0 < k < size_of ListNode fails the fits test for size bytes; an     *)
(* allocate whose normalised size is k short of the region does not select *)
(* it, and the list keeps the region whole.                                *)
C8_MinLeftover ==
    fn_out.done =>
        /\ ( /\ fn_in.addr % fn_in.align = 0
             /\ fn_in.rsize - fn_in.size > 0
             /\ fn_in.rsize - fn_in.size < NodeSize ) => ~fn_out.fit.ok
        /\ ( /\ fn_in.addr % fn_out.norm.align = 0
             /\ fn_in.rsize - fn_out.norm.size > 0
             /\ fn_in.rsize - fn_out.norm.size < NodeSize ) =>
                /\ fn_out.alloc.ptr = NULL
                /\ ~fn_out.alloc.panic
                /\ fn_out.alloc.head = OneRegion.head
                /\ fn_out.alloc.mem = OneRegion.mem

\* a region 8 bytes longer than the normalised request, left alone
C8_Witness ==
    /\ fn_out.done
    /\ fn_in.addr % fn_out.norm.align = 0
    /\ fn_in.size = fn_out.norm.size
    /\ fn_in.rsize - fn_in.size = 8
    /\ ~fn_out.fit.ok
    /\ fn_out.alloc.ptr = NULL

(* C9  Serialization: a context touches the free list only while it holds  *)
(* the lock, so no context is at a free-list step while another has        *)
(* unlinked a region and not yet registered its leftover; and the free     *)
(* list and the addresses returned are those of the calls run one at a     *)
(* time in the order in which they took the lock.                          *)

\* positions at which a context reads or writes the free list
InList == {"find", "split", "add"}

C9_Serialized ==
    /\ \A c \in Ctx : pc[c] \in InList => lock = c
    /\ \A c \in Ctx, d \in Ctx :
          (pc[c] = "split" /\ d # c) => pc[d] \notin InList
    /\ (lock = NoHolder /\ ~panicked) =>
          /\ head = shadow.head
          /\ mem = shadow.mem
    /\ \A c \in Ctx :
          (pc[c] = "idle" /\ loc[c].op = "alloc" /\ ~panicked) =>
              loc[c].ret = shadow.ret[c]

\* one context has unlinked a region and not yet registered the leftover
\* while another waits for the lock, after an earlier allocation returned
C9_Witness ==
    /\ pc["main1"] = "split"
    /\ pc["main0"] = "lock"
    /\ live # {}

(* C10  Re-entrancy deadlock: once the interrupt handler waits for the     *)
(* lock held by the context it interrupted, it waits for ever, the holder  *)
(* never runs again, the lock is never released and no call in progress    *)
(* returns.                                                                *)

\* the handler on core 0 spins on the lock held by the code it interrupted
IrqDeadlock == pc["irq0"] = "lock" /\ lock = "main0"

C10_DeadlockForEver ==
    [][IrqDeadlock =>
          /\ IrqDeadlock'
          /\ pc'["main0"] = pc["main0"]
          /\ head' = head /\ mem' = mem
          /\ \A c \in Ctx : pc[c] # "idle" => pc'[c] # "idle"]_vars

\* the handler called alloc after main0 had unlinked a region under the lock
C10_Witness ==
    /\ IrqDeadlock
    /\ pc["main0"] = "split"
    /\ loc["irq0"].op = "alloc"

(* C11  Contract violation is fatal: init (add_free_region) with a start   *)
(* that is not a multiple of the record alignment, or a size below one     *)
(* record, stops fatally before the free list changes: the region is not   *)
(* inserted, and nothing runs after the stop.                              *)

\* this step is a call of init
InitStep == nops' = nops + 1 /\ Last(hist').op = "init"

\* the arguments of a call break the contract of add_free_region
Malformed(addr, size) == addr % NodeAlign # 0 \/ size < NodeSize

C11_ContractFatal ==
    [][/\ (InitStep /\ Malformed(Last(hist').ptr, Last(hist').size)) =>
              /\ panicked'
              /\ head' = head /\ mem' = mem
              /\ ChainOf(head', mem') = << >>
       /\ panicked => FALSE]_vars

\* init(0x1004, 64) has stopped fatally with the list still empty
C11_Witness ==
    /\ panicked
    /\ heap = [start |-> 4100, size |-> 64]
    /\ head.next = NULL

(* C12  Overflow is a non-fit: when the aligned start plus the size passes *)
(* the end of the address space the fits test rejects the region; alloc    *)
(* then returns null with the list as it was, and the alloc_start + size   *)
(* that alloc computes again for a region found never overflows.           *)
C12_OverflowRejected ==
    fn_out.done =>
        /\ align_up(fn_in.addr, fn_in.align) + fn_in.size > UsizeMax =>
              ~fn_out.fit.ok
        /\ fn_out.fit.ok =>
              fn_out.fit.alloc_start + fn_in.size <= fn_in.addr + fn_in.rsize
        /\ ~fn_out.alloc.panic
        /\ align_up(fn_in.addr, fn_out.norm.align) + fn_out.norm.size > UsizeMax =>
              /\ fn_out.alloc.ptr = NULL
              /\ fn_out.alloc.head = OneRegion.head
              /\ fn_out.alloc.mem = OneRegion.mem

\* a region in the last page and a request that a Layout can carry, whose
\* end lies past the address space
C12_Witness ==
    /\ fn_out.done
    /\ fn_in.addr = UsizeMax - 255
    /\ fn_in.size = 2^(WordBits - 1) - 4096
    /\ fn_in.addr + fn_in.size > UsizeMax
    /\ ~fn_out.fit.ok
    /\ fn_out.alloc.ptr = NULL

(* C13  Free-block well-formedness: after a valid init every region of the *)
(* free list starts at a multiple of the record alignment, is at least one *)
(* record long and lies in the heap, and no assertion of add_free_region   *)
(* fails in alloc or dealloc.                                              *)
C13_WellFormed ==
    (heap # NoHeap /\ ~Malformed(heap.start, heap.size)) =>
        /\ ~panicked
        /\ \A r \in FreeRegions :
              /\ r.start % NodeAlign = 0
              /\ r.size >= NodeSize
              /\ heap.start <= r.start
              /\ r.start + r.size <= heap.start + heap.size

\* a list holding a freed block of the smallest layout and a split-off
\* leftover
C13_Witness ==
    /\ Ready
    /\ hist # << >>
    /\ Last(hist) = Event("dealloc", 8, 1, Last(hist).ptr)
    /\ Len(Chain) >= 2
    /\ mem[Chain[1]].size = NodeSize

(* C14  First fit in list order: a successful alloc takes the first region *)
(* of the list that passes the fits test, returns its start rounded up to  *)
(* align, and unlinks that region only: the other regions keep their sizes *)
(* and their order.                                                        *)

\* the regions of the list that pass the fits test for (size, align)
Fitting(size, align) ==
    { i \in 1..Len(Chain) :
        alloc_from_region(Chain[i], mem[Chain[i]], size, align).ok }

\* the place in the list of the first of them
FirstFit(size, align) ==
    CHOOSE i \in Fitting(size, align) :
        \A j \in Fitting(size, align) : i <= j

\* seq without its i-th element
Without(seq, i) ==
    [k \in 1..(Len(seq) - 1) |-> IF k < i THEN seq[k] ELSE seq[k + 1]]

\* this step is a call of alloc that returned an address
AllocOk == AllocStep /\ Last(hist').ptr # NULL

\* the leftover behind a successful alloc of this step
Leftover ==
    LET e  == Last(hist')
        sa == size_align(e.size, e.align)
        r  == Chain[FirstFit(sa.size, sa.align)]
    IN  [start |-> e.ptr + sa.size,
         size  |-> r + mem[r].size - (e.ptr + sa.size)]

C14_FirstFit ==
    [][AllocOk =>
          LET e   == Last(hist')
              sa  == size_align(e.size, e.align)
              i   == FirstFit(sa.size, sa.align)
              new_chain == ChainOf(head', mem')
              kept == IF Leftover.size > 0 THEN Tail(new_chain) ELSE new_chain
          IN  /\ Fitting(sa.size, sa.align) # {}
              /\ e.ptr = align_up(Chain[i], sa.align)
              /\ kept = Without(Chain, i)
              /\ \A k \in 1..Len(kept) : mem'[kept[k]].size = mem[kept[k]].size]_vars

\* the block freed last, first in the list, did not fit and is still in
\* the list after an alloc that took a later region
C14_Witness ==
    /\ Ready
    /\ Len(hist) >= 2
    /\ hist[Len(hist) - 1].op = "dealloc"
    /\ Last(hist).op = "alloc" /\ Last(hist).ptr # NULL
    /\ \E i \in 1..Len(Chain) : Chain[i] = hist[Len(hist) - 1].ptr
    /\ Len(Chain) >= 2

(* C15  Split: a successful alloc from region r with e = alloc_start +      *)
(* size registers exactly one new region [e, r.end) at the front of the    *)
(* list when r.end - e > 0, and none when r.end - e = 0, the list then     *)
(* being one region shorter.                                               *)

\* the addresses in a sequence
Elems(seq) == { seq[k] : k \in 1..Len(seq) }

C15_Split ==
    [][AllocOk =>
          LET new_chain == ChainOf(head', mem')
          IN  IF Leftover.size > 0
              THEN /\ new_chain # << >>
                   /\ new_chain[1] = Leftover.start
                   /\ mem'[Leftover.start].size = Leftover.size
                   /\ Elems(new_chain) \ Elems(Chain) = {Leftover.start}
                   /\ Len(new_chain) = Len(Chain)
              ELSE /\ Leftover.size = 0
                   /\ Elems(new_chain) \subseteq Elems(Chain)
                   /\ Len(new_chain) = Len(Chain) - 1]_vars

\* allocate(64, 8) took the whole heap of init(0x1000, 64): nothing is
\* left over and the list is empty
C15_Witness ==
    /\ heap = [start |-> 4096, size |-> 64]
    /\ hist = <<Event("init", 64, 0, 4096), Event("alloc", 64, 8, 4096)>>
    /\ Chain = << >>

(* C16  Prepend on registration: the region registered by init, by the     *)
(* split of alloc or by dealloc becomes the first node after the sentinel, *)
(* and the regions listed before keep their sizes and their order, so the  *)
(* region registered last is the first one the next alloc tries.           *)

\* this step is a call of dealloc
DeallocStep == nops' = nops + 1 /\ Last(hist').op = "dealloc"

C16_Prepend ==
    [][LET e         == Last(hist')
           new_chain == ChainOf(head', mem')
       IN  /\ (InitStep /\ ~Malformed(e.ptr, e.size)) =>
                 /\ new_chain = <<e.ptr>>
                 /\ mem'[e.ptr].size = e.size
           /\ DeallocStep =>
                 /\ new_chain = <<e.ptr>> \o Chain
                 /\ head'.next = e.ptr
                 /\ mem'[e.ptr].size = NormSize(e)
                 /\ \A a \in Elems(Chain) : mem'[a].size = mem[a].size
           /\ (AllocOk /\ Leftover.size > 0) =>
                 LET sa == size_align(e.size, e.align)
                 IN  /\ head'.next = Leftover.start
                     /\ Tail(new_chain) =
                            Without(Chain, FirstFit(sa.size, sa.align))
                     /\ \A a \in Elems(Tail(new_chain)) :
                            mem'[a].size = mem[a].size]_vars

\* a block was freed onto a list of two regions and is now the first of
\* three
C16_Witness ==
    /\ Ready
    /\ hist # << >> /\ Last(hist).op = "dealloc"
    /\ Len(Chain) >= 3
    /\ Chain[1] = Last(hist).ptr

(* C17  Normalisation: the normalised alignment is the larger of align and *)
(* the record alignment, the normalised size the larger of the record size *)
(* and size rounded up to a multiple of the normalised alignment; dealloc  *)
(* of an address with the layout it was allocated with registers a region  *)
(* of exactly the length alloc took from the free list at that address.    *)

\* the least multiple of al that is at least n
RoundedUp(n, al) == CHOOSE x \in n..(n + al - 1) : x % al = 0

\* where the bytes taken by the allocation of fn_out end: at the leftover
\* that was put back, or at the end of the region when nothing was put back
TakenEnd ==
    IF fn_out.alloc.head.next # NULL THEN fn_out.alloc.head.next
    ELSE fn_in.addr + fn_in.rsize

C17_Normalised ==
    fn_out.done =>
        LET al == IF fn_in.align > NodeAlign THEN fn_in.align ELSE NodeAlign
            r  == RoundedUp(fn_in.size, al)
        IN  /\ fn_out.norm.align = al
            /\ fn_out.norm.size = IF r > NodeSize THEN r ELSE NodeSize
            /\ fn_out.alloc.ptr # NULL =>
                  /\ ~fn_out.free.panic
                  /\ fn_out.free.head.next = fn_out.alloc.ptr
                  /\ fn_out.free.mem[fn_out.alloc.ptr].size =
                        TakenEnd - fn_out.alloc.ptr

\* a layout below the record alignment whose size is no multiple of it,
\* allocated from an aligned region and freed again
C17_Witness ==
    /\ fn_out.done
    /\ fn_in.align = 1 /\ fn_in.size = 20
    /\ fn_out.norm = [size |-> 24, align |-> 8]
    /\ fn_out.alloc.ptr = fn_in.addr
    /\ fn_out.free.mem[fn_in.addr].size = 24

(* C18  Failure leaves state unchanged: an allocate that returns null      *)
(* leaves the free list (its regions, their sizes and their order) as it   *)
(* was when the call took the lock, and the lock free as it found it; the  *)
(* failed search unlinks and modifies nothing.                             *)

\* context c returns null from alloc in this step
FailStep(c) == pc[c] = "find" /\ pc'[c] = "idle"

\* context c takes the lock in this step
LockStep(c) == pc[c] = "lock" /\ pc'[c] # "lock"

C18_FailureFrame ==
    [][\A c \in Ctx :
          /\ FailStep(c) =>
                /\ loc'[c].ret = NULL
                /\ head' = head /\ mem' = mem
                /\ ChainOf(head', mem') = Chain
                /\ lock = c /\ lock' = NoHolder
                /\ live' = live /\ ~panicked'
          /\ (LockStep(c) /\ loc[c].op = "alloc") =>
                /\ lock = NoHolder /\ lock' = c
                /\ head' = head /\ mem' = mem]_vars

\* an alloc has just returned null although a region is listed
C18_Witness ==
    \E c \in Ctx :
        /\ pc[c] = "idle" /\ loc[c].op = "alloc" /\ loc[c].ret = NULL
        /\ loc[c].region = NULL
        /\ nops > 0 /\ lock = NoHolder
        /\ Len(Chain) >= 1
        /\ \A r \in FreeRegions : r.size < loc[c].size

(* C19  Termination: after one valid init and well-formed calls the free   *)
(* list is a finite chain from the sentinel that ends in null and holds no *)
(* region twice, so a traversal sees each region at most once; a call that *)
(* holds the lock can always take its next step, each step brings it       *)
(* closer to its return, and on return the lock is released.               *)

\* the list of (h, m) ends in null, every link leads to a node, and no node
\* is linked twice
WellLinked(h, m) ==
    LET ch == ChainOf(h, m)
    IN  /\ \A i, j \in 1..Len(ch) : ch[i] = ch[j] => i = j
        /\ IF ch = << >> THEN h.next = NULL
           ELSE /\ h.next = ch[1]
                /\ m[ch[Len(ch)]].next = NULL

\* how many steps a call is from its return
Rank(p) == CASE p = "lock"  -> 3
             [] p = "find"  -> 2
             [] p = "split" -> 1
             [] p = "add"   -> 1
             [] OTHER       -> 0

C19_Terminates ==
    [][/\ WellLinked(head, mem) /\ WellLinked(head', mem')
       /\ ~panicked'
       /\ \A c \in Ctx :
             /\ lock' = c => pc'[c] \in {"find", "split", "add"}
             /\ pc'[c] \in {"idle", "lock"} => lock' # c
             /\ pc'[c] # pc[c] /\ pc[c] # "idle" => Rank(pc'[c]) < Rank(pc[c])
             /\ (lock = c /\ Runnable(c)) =>
                   ENABLED (alloc_find(c) \/ alloc_finish(c) \/ dealloc_add(c))
             /\ (lock = c /\ pc'[c] = "idle") => lock' = NoHolder]_vars

\* a call holds the lock in the middle of an allocation while two regions
\* are listed
C19_Witness ==
    \E c \in Ctx :
        /\ lock = c /\ pc[c] = "split"
        /\ Len(Chain) >= 2
        /\ WellLinked(head, mem)

(* C20  Free-then-reallocate is the identity: dealloc of a live allocation *)
(* directly followed by alloc of the same layout returns the same address  *)
(* and leaves the free list as it was before the dealloc.                  *)
C20_FreeRealloc ==
    [][/\ DeallocStep =>
             LET e  == Last(hist')
                 sa == size_align(e.size, e.align)
                 r  == alloc_locked(head', mem', sa.size, sa.align)
             IN  /\ ~panicked'
                 /\ Chain' = <<e.ptr>> \o Chain
                 /\ ~r.panic
                 /\ r.ptr = e.ptr
                 /\ r.head = head /\ r.mem = mem
                 /\ ChainOf(r.head, r.mem) = Chain
       /\ ( /\ AllocStep
            /\ hist # << >>
            /\ Last(hist).op = "dealloc"
            /\ Last(hist).size = Last(hist').size
            /\ Last(hist).align = Last(hist').align ) =>
                /\ Last(hist').ptr = Last(hist).ptr
                /\ Chain = <<Last(hist).ptr>> \o Chain'
                /\ mem[Last(hist).ptr].next = head'.next]_vars

\* an allocation aligned to 32 is freed and allocated again at its address,
\* with other regions listed
C20_Witness ==
    /\ heap = [start |-> 4104, size |-> 96]
    /\ hist = << Event("alloc", 16, 32, 4128), Event("dealloc", 16, 32, 4128),
                 Event("alloc", 16, 32, 4128) >>
    /\ Len(Chain) >= 1

====
